---- MODULE Spec2Model ----
(***************************************************************************)
(* Model of the replay-log codec (package parse) and of the PostgreSQL     *)
(* chunk classifier (package postgres) of tcp-replay-reverse-proxy.        *)
(*                                                                         *)
(* Bytes are the integers 0..255, byte strings are sequences of bytes.     *)
(* A Go slice expression s[i:j] is Slice(s, i, j), s[i:] is From(s, i).    *)
(* A Go (value, error) pair is a record with an err field; err = "nil" is  *)
(* the nil error.  A run-time panic is the outcome err = "panic".          *)
(***************************************************************************)
EXTENDS Integers, Sequences, FiniteSets, TLC

VARIABLES
    chunk,      \* the []byte handed to ParseChunk (its first len bytes)
    spare,      \* the bytes of its backing array between len and cap
    req,        \* what ParseChunk returned for it
    encDst,     \* the dst prefix handed to Byte1pMessage.Encode
    encData,    \* the Data of the Byte1pMessage that was encoded
    encOut,     \* what Encode returned
    source,     \* the bytes of the io.Reader under the ReplayLogStream
    off,        \* how many of them the stream's bufio.Reader has handed out
    rets,       \* for every Next call so far: what it returned, and the
                \* offset it started at and the bytesRead of its Read
    tp,         \* the TCPPacket of the latest Read, as Read left it
    recs,       \* the rows the source was made of
    token,      \* the token handed to NewAddr, as the tables build it
    addrRet,    \* what NewAddr returned for it
    text,       \* what Addr.String returned for the address of addrRet
    addrBack,   \* what NewAddr returned for text
    pc          \* position of the caller: "ready", "encoded", "written",
                \* "parsed", "formatted", "done"

chunkVars == <<chunk, spare, req>>
encVars == <<encDst, encData, encOut>>
streamVars == <<source, off, rets, tp, recs>>
addrVars == <<token, addrRet, text, addrBack>>
vars == <<chunk, spare, req, encDst, encData, encOut, source, off, rets, tp, recs,
          token, addrRet, text, addrBack, pc>>

----------------------------------------------------------------------------
(* Byte strings *)

Slice(s, i, j) == SubSeq(s, i + 1, j)
From(s, i) == SubSeq(s, i + 1, Len(s))

\* bytes.IndexByte: 0-based index of the first b in s, -1 when absent
IndexByte(s, b) ==
    IF \E i \in 1..Len(s) : s[i] = b
    THEN (CHOOSE i \in 1..Len(s) : s[i] = b /\ \A j \in 1..(i - 1) : s[j] # b) - 1
    ELSE -1

\* binary.BigEndian.PutUint32 of one value (the value is taken modulo 2^32)
PutUint32(v) ==
    << (v \div 16777216) % 256, (v \div 65536) % 256, (v \div 256) % 256, v % 256 >>

\* binary.BigEndian.Uint32 / Uint16 of the first bytes of s
Uint32(s) == s[1] * 16777216 + s[2] * 65536 + s[3] * 256 + s[4]
Uint16(s) == s[1] * 256 + s[2]
\* int32(binary.BigEndian.Uint32(s)): two's complement
Int32(s) == (IF s[1] >= 128 THEN s[1] - 256 ELSE s[1]) * 16777216
            + s[2] * 65536 + s[3] * 256 + s[4]

RECURSIVE bigEndianPackUint32(_)
bigEndianPackUint32(v) ==
    IF v = << >> THEN << >> ELSE PutUint32(Head(v)) \o bigEndianPackUint32(Tail(v))

\* the version marker with its two 16-bit halves in the wrong order
postgresProtocolVersion_MinorFirst == <<0, 0, 0, 3>>
postgresProtocolVersion == <<0, 3, 0, 0>>
\* the cancel prefix with the length of the whole cancel message
cancelRequestPrefix_Length16 == bigEndianPackUint32(<<16, 80877102>>)
cancelRequestPrefix == bigEndianPackUint32(<<8, 80877102>>)
sslRequest == bigEndianPackUint32(<<8, 80877103>>)
gssEncReq == bigEndianPackUint32(<<8, 80877104>>)

----------------------------------------------------------------------------
(* Addresses: net.SplitHostPort, net.ParseIP, strconv.ParseUint, NewAddr   *)
(* and Addr.String.  A net.IP is its 16 bytes; text is ASCII bytes.        *)

IsDigit(b) == b \in 48..57
IsHex(b) == b \in 48..57 \/ b \in 97..102 \/ b \in 65..70
HexVal(b) == IF b \in 48..57 THEN b - 48 ELSE IF b \in 97..102 THEN b - 87 ELSE b - 55

\* 0-based index of the last b in s, -1 when absent
LastIndexByte(s, b) ==
    IF \E i \in 1..Len(s) : s[i] = b
    THEN (CHOOSE i \in 1..Len(s) : s[i] = b /\ \A j \in (i + 1)..Len(s) : s[j] # b) - 1
    ELSE -1

\* net.dtoi and net.xtoi: the number at the start of s, the count of its
\* digits, and whether there is one below 0xFFFFFF
RECURSIVE dtoiFrom(_, _, _)
dtoiFrom(s, i, n) ==
    IF i < Len(s) /\ IsDigit(s[i + 1])
    THEN LET n2 == n * 10 + (s[i + 1] - 48) IN
         IF n2 >= 16777215 THEN [n |-> 16777215, c |-> i, ok |-> FALSE]
         ELSE dtoiFrom(s, i + 1, n2)
    ELSE IF i = 0 THEN [n |-> 0, c |-> 0, ok |-> FALSE]
    ELSE [n |-> n, c |-> i, ok |-> TRUE]

dtoi(s) == dtoiFrom(s, 0, 0)

RECURSIVE xtoiFrom(_, _, _)
xtoiFrom(s, i, n) ==
    IF i < Len(s) /\ IsHex(s[i + 1])
    THEN LET n2 == n * 16 + HexVal(s[i + 1]) IN
         IF n2 >= 16777215 THEN [n |-> 0, c |-> i, ok |-> FALSE]
         ELSE xtoiFrom(s, i + 1, n2)
    ELSE IF i = 0 THEN [n |-> 0, c |-> 0, ok |-> FALSE]
    ELSE [n |-> n, c |-> i, ok |-> TRUE]

xtoi(s) == xtoiFrom(s, 0, 0)

NilIP == << >>
v4InV6Prefix == <<0, 0, 0, 0, 0, 0, 0, 0, 0, 0, 255, 255>>

\* net.parseIPv4: octet i of 4, acc the octets so far
RECURSIVE parseIPv4From(_, _, _)
parseIPv4From(s, i, acc) ==
    IF i = 4 THEN (IF Len(s) # 0 THEN NilIP ELSE v4InV6Prefix \o acc)
    ELSE IF Len(s) = 0 THEN NilIP
    ELSE IF i > 0 /\ s[1] # 46 THEN NilIP
    ELSE LET t == IF i > 0 THEN Tail(s) ELSE s
             d == dtoi(t) IN
         IF ~d.ok \/ d.n > 255 THEN NilIP
         ELSE IF d.c > 1 /\ t[1] = 48 THEN NilIP
         ELSE parseIPv4From(From(t, d.c), i + 1, Append(acc, d.n))

parseIPv4(s) == parseIPv4From(s, 0, << >>)

\* net.parseIPv6, the loop: i bytes are in acc, ellipsis is the byte offset
\* of "::" or -1.  Returns the bytes, the ellipsis and the unparsed rest.
RECURSIVE parseIPv6Loop(_, _, _)
parseIPv6Loop(s, acc, ellipsis) ==
    LET i == Len(acc)
        bad == [ok |-> FALSE, ip |-> acc, ellipsis |-> ellipsis, rest |-> s] IN
    IF i >= 16 THEN [ok |-> TRUE, ip |-> acc, ellipsis |-> ellipsis, rest |-> s]
    ELSE LET x == xtoi(s) IN
         IF ~x.ok \/ x.n > 65535 THEN bad
         ELSE IF x.c < Len(s) /\ s[x.c + 1] = 46
         THEN IF ellipsis < 0 /\ i # 12 THEN bad
              ELSE IF i + 4 > 16 THEN bad
              ELSE LET ip4 == parseIPv4(s) IN
                   IF ip4 = NilIP THEN bad
                   ELSE [ok |-> TRUE, ip |-> acc \o From(ip4, 12),
                         ellipsis |-> ellipsis, rest |-> << >>]
         ELSE LET acc2 == acc \o <<x.n \div 256, x.n % 256>>
                  s2 == From(s, x.c) IN
              IF Len(s2) = 0
              THEN [ok |-> TRUE, ip |-> acc2, ellipsis |-> ellipsis, rest |-> s2]
              ELSE IF s2[1] # 58 \/ Len(s2) = 1 THEN bad
              ELSE LET s3 == Tail(s2) IN
                   IF s3[1] = 58
                   THEN IF ellipsis >= 0 THEN bad
                        ELSE IF Len(s3) = 1
                        THEN [ok |-> TRUE, ip |-> acc2, ellipsis |-> Len(acc2), rest |-> << >>]
                        ELSE parseIPv6Loop(Tail(s3), acc2, Len(acc2))
                   ELSE parseIPv6Loop(s3, acc2, ellipsis)

Zeros(n) == [k \in 1..n |-> 0]

parseIPv6(s) ==
    LET lead == Len(s) >= 2 /\ s[1] = 58 /\ s[2] = 58 IN
    IF lead /\ Len(s) = 2 THEN Zeros(16)
    ELSE LET r == parseIPv6Loop(IF lead THEN From(s, 2) ELSE s, << >>,
                                IF lead THEN 0 ELSE -1) IN
         IF ~r.ok \/ Len(r.rest) # 0 THEN NilIP
         ELSE IF Len(r.ip) < 16
         THEN IF r.ellipsis < 0 THEN NilIP
              ELSE Slice(r.ip, 0, r.ellipsis) \o Zeros(16 - Len(r.ip))
                   \o From(r.ip, r.ellipsis)
         ELSE IF r.ellipsis >= 0 THEN NilIP
         ELSE r.ip

\* net.ParseIP: the first '.' or ':' decides the family
ParseIP(s) ==
    LET dot == IndexByte(s, 46)
        colon == IndexByte(s, 58) IN
    IF dot < 0 /\ colon < 0 THEN NilIP
    ELSE IF colon < 0 \/ (dot >= 0 /\ dot < colon) THEN parseIPv4(s)
    ELSE parseIPv6(s)

\* net.SplitHostPort
SplitHostPort(hostport) ==
    LET i == LastIndexByte(hostport, 58)
        bad(why) == [host |-> << >>, port |-> << >>, err |-> why] IN
    IF i < 0 THEN bad("missing port in address")
    ELSE IF hostport[1] = 91
    THEN LET end == IndexByte(hostport, 93) IN
         IF end < 0 THEN bad("missing ']' in address")
         ELSE IF end + 1 = Len(hostport) THEN bad("missing port in address")
         ELSE IF end + 1 # i
         THEN (IF hostport[end + 2] = 58 THEN bad("too many colons in address")
               ELSE bad("missing port in address"))
         ELSE IF IndexByte(From(hostport, 1), 91) >= 0 THEN bad("unexpected '[' in address")
         ELSE IF IndexByte(From(hostport, end + 1), 93) >= 0
         THEN bad("unexpected ']' in address")
         ELSE [host |-> Slice(hostport, 1, end), port |-> From(hostport, i + 1), err |-> "nil"]
    ELSE IF IndexByte(Slice(hostport, 0, i), 58) >= 0 THEN bad("too many colons in address")
    ELSE IF IndexByte(hostport, 91) >= 0 THEN bad("unexpected '[' in address")
    ELSE IF IndexByte(hostport, 93) >= 0 THEN bad("unexpected ']' in address")
    ELSE [host |-> Slice(hostport, 0, i), port |-> From(hostport, i + 1), err |-> "nil"]

\* strconv.ParseUint(s, 10, 16)
RECURSIVE ParseUintFrom(_, _, _)
ParseUintFrom(s, i, n) ==
    IF i = Len(s) THEN [n |-> n, err |-> "nil"]
    ELSE IF ~IsDigit(s[i + 1]) THEN [n |-> 0, err |-> "strconv.ErrSyntax"]
    ELSE LET n2 == n * 10 + (s[i + 1] - 48) IN
         IF n2 > 65535 THEN [n |-> 65535, err |-> "strconv.ErrRange"]
         ELSE ParseUintFrom(s, i + 1, n2)

ParseUint16(s) ==
    IF Len(s) = 0 THEN [n |-> 0, err |-> "strconv.ErrSyntax"] ELSE ParseUintFrom(s, 0, 0)

ZeroAddr == [IP |-> NilIP, Port |-> 0]

\* the error of strconv.ParseUint is dropped
NewAddrOfParts_IgnoresPortError(ip, port) ==
    IF ip = NilIP THEN [addr |-> ZeroAddr, err |-> "ErrParsingIP"]
    ELSE [addr |-> [IP |-> ip, Port |-> port.n], err |-> "nil"]

\* NewAddr once the host and the port are parsed: a bad host is reported
\* before a bad port
NewAddrOfParts(ip, port) ==
    IF ip = NilIP THEN [addr |-> ZeroAddr, err |-> "ErrParsingIP"]
    ELSE IF port.err # "nil" THEN [addr |-> ZeroAddr, err |-> port.err]
    ELSE [addr |-> [IP |-> ip, Port |-> port.n], err |-> "nil"]

\* NewAddr once the token is split
NewAddrOfSplit(hp) ==
    IF hp.err # "nil" THEN [addr |-> ZeroAddr, err |-> hp.err]
    ELSE NewAddrOfParts(ParseIP(hp.host), ParseUint16(hp.port))

NewAddr(b) == NewAddrOfSplit(SplitHostPort(b))

\* decimal text of a natural number (fmt %d)
RECURSIVE Decimal(_)
Decimal(n) == IF n < 10 THEN <<48 + n>> ELSE Decimal(n \div 10) \o <<48 + (n % 10)>>

\* lower-case hexadecimal text of a natural number, no leading zeros
RECURSIVE appendHex(_)
appendHex(n) ==
    LET d == n % 16
        c == IF d < 10 THEN 48 + d ELSE 87 + d IN
    IF n < 16 THEN <<c>> ELSE appendHex(n \div 16) \o <<c>>

\* the 16-bit group of ip at byte offset i
Group(ip, i) == ip[i + 1] * 256 + ip[i + 2]

\* end of the run of zero groups of ip that starts at byte offset i
RECURSIVE ZeroRunEnd(_, _)
ZeroRunEnd(ip, j) ==
    IF j < 16 /\ ip[j + 1] = 0 /\ ip[j + 2] = 0 THEN ZeroRunEnd(ip, j + 2) ELSE j

\* net.IP.String, the search for the longest run of zero groups
RECURSIVE LongestZeroRun(_, _, _, _)
LongestZeroRun(ip, i, e0, e1) ==
    IF i >= 16 THEN <<e0, e1>>
    ELSE LET j == ZeroRunEnd(ip, i) IN
         IF j > i /\ j - i > e1 - e0 THEN LongestZeroRun(ip, j + 2, i, j)
         ELSE LongestZeroRun(ip, i + 2, e0, e1)

\* net.IP.String, the printing loop from byte offset i
RECURSIVE IPv6Text(_, _, _, _)
IPv6Text(ip, i, e0, e1) ==
    IF i >= 16 THEN << >>
    ELSE IF i = e0
    THEN <<58, 58>> \o (IF e1 >= 16 THEN << >>
                        ELSE appendHex(Group(ip, e1)) \o IPv6Text(ip, e1 + 2, e0, e1))
    ELSE (IF i > 0 THEN <<58>> ELSE << >>)
         \o appendHex(Group(ip, i)) \o IPv6Text(ip, i + 2, e0, e1)

IPString(ip) ==
    IF Len(ip) = 0 THEN <<60, 110, 105, 108, 62>>
    ELSE IF Slice(ip, 0, 12) = v4InV6Prefix
    THEN Decimal(ip[13]) \o <<46>> \o Decimal(ip[14]) \o <<46>>
         \o Decimal(ip[15]) \o <<46>> \o Decimal(ip[16])
    ELSE LET e == LongestZeroRun(ip, 0, -1, -1)
             short == e[2] - e[1] <= 2 IN
         IPv6Text(ip, 0, IF short THEN -1 ELSE e[1], IF short THEN -1 ELSE e[2])

\* Addr.String: fmt.Sprintf("%s:%d", a.IP, a.Port)
AddrString(a) == IPString(a.IP) \o <<58>> \o Decimal(a.Port)

----------------------------------------------------------------------------
(* The row codec: TCPPacket.Read and ReplayLogStream.Next                  *)

\* long division of the big-endian number s by d (d below 2^23): the
\* quotient, as big-endian bytes, and the remainder
RECURSIVE LongDiv(_, _, _, _)
LongDiv(s, d, rem, q) ==
    IF s = << >> THEN [q |-> q, r |-> rem]
    ELSE LET cur == rem * 256 + Head(s) IN
         LongDiv(Tail(s), d, cur % d, Append(q, cur \div d))

\* A time.Time in UTC is [sec, nsec]: seconds since the epoch, as the 8
\* big-endian bytes of the int64, and nanoseconds within the second.
\* time.Unix(tsNanos / 1e9, tsNanos % 1e9), with 1e9 = 512 * 1953125
TimeOfNanos(tsBytes) ==
    LET a == LongDiv(tsBytes, 512, 0, << >>)
        b == LongDiv(a.q, 1953125, 0, << >>) IN
    [sec |-> b.q, nsec |-> b.r * 512 + a.r]

\* the zero time.Time (not an instant that the 8 bytes can encode)
ZeroTime == [sec |-> << >>, nsec |-> 0]
ZeroPacket ==
    [Timestamp |-> ZeroTime, ClientAddr |-> ZeroAddr, ServerAddr |-> ZeroAddr,
     Chunk |-> << >>]

\* io.ReadFull(br, buf) with len(buf) = k, the reader being at offset o
ReadFull(src, o, k) ==
    LET avail == Len(src) - o IN
    IF k = 0 THEN [data |-> << >>, err |-> "nil"]
    ELSE IF avail >= k THEN [data |-> Slice(src, o, o + k), err |-> "nil"]
    ELSE IF avail = 0 THEN [data |-> << >>, err |-> "io.EOF"]
    ELSE [data |-> From(src, o), err |-> "io.ErrUnexpectedEOF"]

\* br.ReadBytes(delim), the reader being at offset o
ReadBytes(src, o, delim) ==
    LET idx == IndexByte(From(src, o), delim) IN
    IF idx < 0 THEN [data |-> From(src, o), err |-> "io.EOF"]
    ELSE [data |-> Slice(src, o, o + idx + 1), err |-> "nil"]

\* TCPPacket.Read is a chain of steps.  Each step is given the packet p as
\* filled so far, the bytesRead n so far and what the latest read or parse
\* returned; it returns the packet as Read leaves it, bytesRead and the error.

\* the payload was read into the chunkSize bytes of tp.Chunk
ReadChunk(p, n, chunkSize, body) ==
    [tp |-> [p EXCEPT !.Chunk = body.data \o Zeros(chunkSize - Len(body.data))],
     n |-> n + Len(body.data), err |-> body.err]

\* the length header was read
ReadSizeHeader(src, o, p, n, sizeHeader) ==
    IF sizeHeader.err # "nil"
    THEN [tp |-> p, n |-> n + Len(sizeHeader.data), err |-> sizeHeader.err]
    ELSE ReadChunk(p, n + 4, Uint32(sizeHeader.data),
                   ReadFull(src, o + n + 4, Uint32(sizeHeader.data)))

\* the server token was parsed
ParseServerAddr(src, o, p, n, serverAddr) ==
    IF serverAddr.err # "nil" THEN [tp |-> p, n |-> n, err |-> serverAddr.err]
    ELSE ReadSizeHeader(src, o, [p EXCEPT !.ServerAddr = serverAddr.addr], n,
                        ReadFull(src, o + n, 4))

\* the token without the ' ' at its end
Token(addrBytes) == Slice(addrBytes, 0, Len(addrBytes) - 1)

\* the server token was read
ReadServerAddr(src, o, p, n, serverAddrBytes) ==
    IF serverAddrBytes.err # "nil"
    THEN [tp |-> p, n |-> n + Len(serverAddrBytes.data), err |-> serverAddrBytes.err]
    ELSE ParseServerAddr(src, o, p, n + Len(serverAddrBytes.data),
                         NewAddr(Token(serverAddrBytes.data)))

\* the client token was parsed
ParseClientAddr(src, o, p, n, clientAddr) ==
    IF clientAddr.err # "nil" THEN [tp |-> p, n |-> n, err |-> clientAddr.err]
    ELSE ReadServerAddr(src, o, [p EXCEPT !.ClientAddr = clientAddr.addr], n,
                        ReadBytes(src, o + n, 32))

\* the client token was read
ReadClientAddr(src, o, p, n, clientAddrBytes) ==
    IF clientAddrBytes.err # "nil"
    THEN [tp |-> p, n |-> n + Len(clientAddrBytes.data), err |-> clientAddrBytes.err]
    ELSE ParseClientAddr(src, o, p, n + Len(clientAddrBytes.data),
                         NewAddr(Token(clientAddrBytes.data)))

\* the timestamp was read
ReadTimestamp(src, o, tsBytes) ==
    IF tsBytes.err # "nil"
    THEN [tp |-> ZeroPacket, n |-> Len(tsBytes.data), err |-> tsBytes.err]
    ELSE ReadClientAddr(src, o,
                        [ZeroPacket EXCEPT !.Timestamp = TimeOfNanos(tsBytes.data)],
                        8, ReadBytes(src, o + 8, 32))

\* TCPPacket.Read on a zero TCPPacket, the reader being at offset o
Read(src, o) == ReadTimestamp(src, o, ReadFull(src, o, 8))

NilPacket == [nil |-> TRUE]

\* an end of input inside a row is passed on as io.EOF
NextOfRead_NoTruncationCheck(r) ==
    [tp |-> IF r.err # "nil" THEN NilPacket ELSE r.tp,
     err |-> r.err, n |-> r.n, left |-> r.tp]

\* the test on bytesRead is inverted
NextOfRead_InvertedCheck(r) ==
    [tp |-> IF r.err # "nil" THEN NilPacket ELSE r.tp,
     err |-> IF r.err = "io.EOF" /\ r.n = 0 THEN "io.ErrUnexpectedEOF" ELSE r.err,
     n |-> r.n, left |-> r.tp]

\* what Next returns for the result r of Read, with the bytesRead of Read
\* and the packet Read left behind
NextOfRead(r) ==
    [tp |-> IF r.err # "nil" THEN NilPacket ELSE r.tp,
     err |-> IF r.err = "io.EOF" /\ r.n # 0 THEN "io.ErrUnexpectedEOF" ELSE r.err,
     n |-> r.n, left |-> r.tp]

\* ReplayLogStream.Next, the stream's reader being at offset o
ReplayLogStreamNext(src, o) == NextOfRead(Read(src, o))

----------------------------------------------------------------------------
(* The decode routines of package pgproto3 that the classifier calls.      *)
(* Each takes the message body and returns [fm, err].                      *)

NilMsg == [type |-> "nil"]
Fail(e) == [fm |-> NilMsg, err |-> e]
Ok(m) == [fm |-> m, err |-> "nil"]

\* Bind.Decode: the parameters, n of them left to read from offset rp
RECURSIVE BindParameters(_, _, _, _)
BindParameters(src, rp, n, acc) ==
    IF n = 0 THEN [err |-> "nil", rp |-> rp, ps |-> acc]
    ELSE IF Len(src) - rp < 4 THEN [err |-> "invalidMessageFormatErr", rp |-> rp, ps |-> acc]
    ELSE LET msgSize == Int32(From(src, rp)) IN
         IF msgSize = -1 THEN BindParameters(src, rp + 4, n - 1, Append(acc, <<"null">>))
         ELSE IF Len(src) - (rp + 4) < msgSize
              THEN [err |-> "invalidMessageFormatErr", rp |-> rp, ps |-> acc]
         ELSE IF msgSize < 0 THEN [err |-> "panic", rp |-> rp, ps |-> acc]
         ELSE BindParameters(src, rp + 4 + msgSize, n - 1,
                             Append(acc, <<"bytes", Slice(src, rp + 4, rp + 4 + msgSize)>>))

\* n 16-bit format codes read from offset rp
FormatCodes(src, rp, n) == [i \in 1..n |-> Uint16(From(src, rp + 2 * (i - 1)))]

BindDecode(src) ==
    LET idx1 == IndexByte(src, 0) IN
    IF idx1 < 0 THEN Fail("invalidMessageFormatErr") ELSE
    LET rp1 == idx1 + 1
        idx2 == IndexByte(From(src, rp1), 0) IN
    IF idx2 < 0 THEN Fail("invalidMessageFormatErr") ELSE
    LET rp2 == rp1 + idx2 + 1 IN
    IF Len(src) - rp2 < 2 THEN Fail("invalidMessageFormatErr") ELSE
    LET pfcCount == Uint16(From(src, rp2))
        rp3 == rp2 + 2 IN
    IF Len(src) - rp3 < pfcCount * 2 THEN Fail("invalidMessageFormatErr") ELSE
    LET rp4 == rp3 + 2 * pfcCount IN
    IF Len(src) - rp4 < 2 THEN Fail("invalidMessageFormatErr") ELSE
    LET pCount == Uint16(From(src, rp4))
        ps == BindParameters(src, rp4 + 2, pCount, << >>) IN
    IF ps.err # "nil" THEN Fail(ps.err) ELSE
    LET rp5 == ps.rp IN
    IF Len(src) - rp5 < 2 THEN Fail("invalidMessageFormatErr") ELSE
    LET rfcCount == Uint16(From(src, rp5))
        rp6 == rp5 + 2 IN
    IF Len(src) - rp6 < rfcCount * 2 THEN Fail("invalidMessageFormatErr") ELSE
    Ok([type |-> "Bind",
        DestinationPortal |-> Slice(src, 0, idx1),
        PreparedStatement |-> Slice(src, rp1, rp1 + idx2),
        ParameterFormatCodes |-> FormatCodes(src, rp3, pfcCount),
        Parameters |-> ps.ps,
        ResultFormatCodes |-> FormatCodes(src, rp6, rfcCount)])

\* Close.Decode and Describe.Decode have the same shape
ObjectDecode(type, src) ==
    IF Len(src) < 2 THEN Fail("invalidMessageFormatErr")
    ELSE IF IndexByte(From(src, 1), 0) # Len(src) - 2 THEN Fail("invalidMessageFormatErr")
    ELSE Ok([type |-> type, ObjectType |-> src[1], Name |-> Slice(src, 1, Len(src) - 1)])

CloseDecode(src) == ObjectDecode("Close", src)
DescribeDecode(src) == ObjectDecode("Describe", src)

CopyDataDecode(src) == Ok([type |-> "CopyData", Data |-> src])

\* CopyDone, Flush, Sync and Terminate carry no body
EmptyDecode(type, src) ==
    IF Len(src) # 0 THEN Fail("invalidMessageLenErr") ELSE Ok([type |-> type])

CopyDoneDecode(src) == EmptyDecode("CopyDone", src)
FlushDecode(src) == EmptyDecode("Flush", src)
SyncDecode(src) == EmptyDecode("Sync", src)
TerminateDecode(src) == EmptyDecode("Terminate", src)

CopyFailDecode(src) ==
    LET idx == IndexByte(src, 0) IN
    IF idx # Len(src) - 1 THEN Fail("invalidMessageFormatErr")
    ELSE Ok([type |-> "CopyFail", Message |-> Slice(src, 0, idx)])

QueryDecode(src) ==
    LET i == IndexByte(src, 0) IN
    IF i # Len(src) - 1 THEN Fail("invalidMessageFormatErr")
    ELSE Ok([type |-> "Query", String |-> Slice(src, 0, i)])

ExecuteDecode(src) ==
    LET idx == IndexByte(src, 0) IN
    IF idx < 0 THEN Fail("io.EOF")
    ELSE IF Len(src) - (idx + 1) < 4 THEN Fail("invalidMessageFormatErr")
    ELSE Ok([type |-> "Execute", Portal |-> Slice(src, 0, idx),
             MaxRows |-> Uint32(From(src, idx + 1))])

\* Parse.Decode: n parameter OIDs left to read from offset rp
RECURSIVE ParseOIDs(_, _, _, _)
ParseOIDs(src, rp, n, acc) ==
    IF n = 0 THEN [err |-> "nil", oids |-> acc]
    ELSE IF Len(src) - rp < 4 THEN [err |-> "invalidMessageFormatErr", oids |-> acc]
    ELSE ParseOIDs(src, rp + 4, n - 1, Append(acc, Uint32(From(src, rp))))

ParseDecode(src) ==
    LET idx1 == IndexByte(src, 0) IN
    IF idx1 < 0 THEN Fail("io.EOF") ELSE
    LET rp1 == idx1 + 1
        idx2 == IndexByte(From(src, rp1), 0) IN
    IF idx2 < 0 THEN Fail("io.EOF") ELSE
    LET rp2 == rp1 + idx2 + 1 IN
    IF Len(src) - rp2 < 2 THEN Fail("invalidMessageFormatErr") ELSE
    LET os == ParseOIDs(src, rp2 + 2, Uint16(From(src, rp2)), << >>) IN
    IF os.err # "nil" THEN Fail(os.err) ELSE
    Ok([type |-> "Parse", Name |-> Slice(src, 0, idx1),
        Query |-> Slice(src, rp1, rp1 + idx2), ParameterOIDs |-> os.oids])

\* CancelRequest.Decode: src is the message without its 4-byte length
CancelRequestDecode(src) ==
    IF Len(src) # 12 THEN Fail("bad cancel request size")
    ELSE IF Uint32(src) # 80877102 THEN Fail("bad cancel request code")
    ELSE Ok([type |-> "CancelRequest", ProcessID |-> Uint32(From(src, 4)),
             SecretKey |-> Uint32(From(src, 8))])

\* StartupMessage.Decode: the key/value pairs from offset rp on; a repeated
\* key overwrites the earlier value
RECURSIVE StartupParameters(_, _, _)
StartupParameters(src, rp, acc) ==
    LET idx1 == IndexByte(From(src, rp), 0) IN
    IF idx1 < 0 THEN [err |-> "invalidMessageFormatErr", ps |-> acc] ELSE
    LET key == Slice(src, rp, rp + idx1)
        rp1 == rp + idx1 + 1
        idx2 == IndexByte(From(src, rp1), 0) IN
    IF idx2 < 0 THEN [err |-> "invalidMessageFormatErr", ps |-> acc] ELSE
    LET value == Slice(src, rp1, rp1 + idx2)
        rp2 == rp1 + idx2 + 1
        acc2 == (key :> value) @@ acc IN
    IF Len(src) - rp2 = 1
    THEN IF src[rp2 + 1] # 0
         THEN [err |-> "Bad startup message last byte", ps |-> acc2]
         ELSE [err |-> "nil", ps |-> acc2]
    ELSE StartupParameters(src, rp2, acc2)

\* StartupMessage.Decode: src is the message without its 4-byte length
StartupMessageDecode(src) ==
    IF Len(src) < 4 THEN Fail("startup message too short")
    ELSE IF Uint32(src) # 196608 THEN Fail("Bad startup message version number")
    ELSE LET ps == StartupParameters(src, 4, << >>) IN
         IF ps.err # "nil" THEN Fail(ps.err)
         ELSE Ok([type |-> "StartupMessage", ProtocolVersion |-> 196608,
                  Parameters |-> ps.ps])

----------------------------------------------------------------------------
(* Byte1pMessage, the stand-in for the messages that share the tag 'p' *)

Byte1pMessageDecode(src) == Ok([type |-> "Byte1pMessage", Data |-> src])

\* the length header does not count itself
Byte1pMessageEncode_LengthOfData(bm, dst) ==
    dst \o <<112>> \o PutUint32(Len(bm.Data)) \o bm.Data

Byte1pMessageEncode(bm, dst) ==
    dst \o <<112>> \o PutUint32(4 + Len(bm.Data)) \o bm.Data

----------------------------------------------------------------------------
(* The chunk classifier *)

ErrTooShort5 == "ErrParsingClientMessage; message must contain at least 5 bytes"
ErrTooShort8 == "ErrParsingClientMessage; message must contain at least 8 bytes"
ErrNotStartup == "ErrParsingClientMessage; expected a startup message"
ErrNotImplemented == "ErrNotImplemented; FunctionCall not supported by pgx project"

\* the switch of parseFrontendMessage on the message type
decodeByType(messageType, body) ==
    CASE messageType = 66 -> BindDecode(body)
      [] messageType = 67 -> CloseDecode(body)
      [] messageType = 100 -> CopyDataDecode(body)
      [] messageType = 99 -> CopyDoneDecode(body)
      [] messageType = 102 -> CopyFailDecode(body)
      [] messageType = 68 -> DescribeDecode(body)
      [] messageType = 69 -> ExecuteDecode(body)
      [] messageType = 72 -> FlushDecode(body)
      [] messageType = 70 -> Fail(ErrNotImplemented)
      [] messageType = 80 -> ParseDecode(body)
      [] messageType = 81 -> QueryDecode(body)
      [] messageType = 83 -> SyncDecode(body)
      [] messageType = 88 -> TerminateDecode(body)
      [] messageType = 112 -> Byte1pMessageDecode(body)
      [] OTHER -> Ok(NilMsg)

\* the decode routine is handed the declared length with the body
parseFrontendMessage_KeepsLength(c) ==
    IF Len(c) < 5 THEN Fail(ErrTooShort5) ELSE decodeByType(c[1], From(c, 1))

\* the length check rejects a chunk that is exactly a header
parseFrontendMessage_OffByOne(c) ==
    IF Len(c) <= 5 THEN Fail(ErrTooShort5) ELSE decodeByType(c[1], From(c, 5))

parseFrontendMessage(c) ==
    IF Len(c) < 5 THEN Fail(ErrTooShort5) ELSE decodeByType(c[1], From(c, 5))

\* the protocol version is checked before the magic sequences
ParseChunk_VersionFirst(c, sp) ==
    LET r == parseFrontendMessage(c) IN
    IF r.err # "nil" THEN Fail(r.err)
    ELSE IF r.fm # NilMsg THEN Ok(r.fm)
    ELSE IF Len(c) = 0 THEN Fail(ErrTooShort8)
    ELSE IF Len(c) + Len(sp) < 8 THEN Fail("panic")
    ELSE LET first8 == Slice(c \o sp, 0, 8) IN
         IF Slice(c \o sp, 4, 8) # postgresProtocolVersion THEN Fail(ErrNotStartup)
         ELSE IF first8 = cancelRequestPrefix THEN CancelRequestDecode(From(c, 4))
         ELSE IF first8 = sslRequest THEN Ok([type |-> "SSLRequest"])
         ELSE IF first8 = gssEncReq THEN Ok([type |-> "GSSEncRequest"])
         ELSE StartupMessageDecode(From(c, 4))

\* c is the slice (its len bytes), sp the bytes between its len and its cap:
\* c[:8] and c[4:8] are legal up to cap and panic beyond it.
ParseChunk(c, sp) ==
    LET r == parseFrontendMessage(c) IN
    IF r.err # "nil" THEN Fail(r.err)
    ELSE IF r.fm # NilMsg THEN Ok(r.fm)
    ELSE IF Len(c) = 0 THEN Fail(ErrTooShort8)
    ELSE IF Len(c) + Len(sp) < 8 THEN Fail("panic")
    ELSE LET first8 == Slice(c \o sp, 0, 8) IN
         IF first8 = cancelRequestPrefix THEN CancelRequestDecode(From(c, 4))
         ELSE IF first8 = sslRequest THEN Ok([type |-> "SSLRequest"])
         ELSE IF first8 = gssEncReq THEN Ok([type |-> "GSSEncRequest"])
         ELSE IF Slice(c \o sp, 4, 8) # postgresProtocolVersion THEN Fail(ErrNotStartup)
         ELSE StartupMessageDecode(From(c, 4))

----------------------------------------------------------------------------
(* The chunks the classifier is run on: every prefix of a header followed  *)
(* by a body, as a slice whose capacity is its length or the whole buffer. *)

\* the three untagged fixed-shape requests of the protocol, as bytes
CancelMagic == <<0, 0, 0, 8, 4, 210, 22, 46>>
SSLMagic == <<0, 0, 0, 8, 4, 210, 22, 47>>
GSSMagic == <<0, 0, 0, 8, 4, 210, 22, 48>>

MaxBody == 3
BodyBytes == {0, 1, 97}

SampleBodies ==
    { <<0, 0, 0, 0, 0, 0, 0, 0>>,
      <<0, 0, 0, 1, 0, 1, 0, 2, 0, 0, 0, 1, 97, 255, 255, 255, 255, 0, 1, 0, 0>>,
      <<0, 0, 0, 0, 0, 1, 255, 255, 255, 254, 0, 0>>,
      <<97, 0, 0, 0, 0, 1>>,
      <<97, 0, 97, 0, 0, 1, 0, 0, 0, 1>>,
      <<0, 0, 1, 2, 0, 0, 3, 4>>,
      <<97, 0, 98, 0, 0>>,
      <<97, 0, 98, 0, 97, 0, 99, 0, 0>>,
      <<97, 0, 98, 0, 1>> }

Bodies == UNION {[1..n -> BodyBytes] : n \in 0..MaxBody} \cup SampleBodies

RegistryTags == {66, 67, 99, 100, 68, 69, 102, 72, 80, 112, 81, 83, 88}
FirstBytes == RegistryTags \cup {70, 0, 1, 90}
LenFields == { <<0, 0, 0, 4>>, <<0, 0, 0, 8>>, <<0, 3, 0, 0>>, <<0, 0, 1, 0>> }

Headers ==
    { <<t>> \o lf : t \in FirstBytes, lf \in LenFields }
    \cup { CancelMagic, SSLMagic, GSSMagic,
           bigEndianPackUint32(<<8, 80877105>>),
           bigEndianPackUint32(<<9, 80877103>>),
           bigEndianPackUint32(<<16, 80877102>>),
           bigEndianPackUint32(<<9, 196608>>),
           bigEndianPackUint32(<<8, 196608>>),
           bigEndianPackUint32(<<9, 131072>>),
           <<0, 0, 0, 9>> \o <<0, 3, 0, 1>> }

Buffers == { h \o b : h \in Headers, b \in Bodies }

NotCalled == [fm |-> NilMsg, err |-> "not called"]

\* the parts of the state a specification does not use
NoChunk == chunk = << >> /\ spare = << >> /\ req = NotCalled
NoEncode == encDst = << >> /\ encData = << >> /\ encOut = << >>
NoStream == source = << >> /\ off = 0 /\ rets = << >> /\ tp = ZeroPacket /\ recs = << >>
NoAddr == token = << >> /\ addrRet = << >> /\ text = << >> /\ addrBack = << >>

----------------------------------------------------------------------------
(* Specification of the classifier: one chunk, classified once *)

Init ==
    /\ \E buf \in Buffers : \E n \in 0..Len(buf) : \E whole \in BOOLEAN :
          /\ chunk = Slice(buf, 0, n)
          /\ spare = IF whole THEN From(buf, n) ELSE << >>
    /\ req = NotCalled
    /\ NoEncode
    /\ NoStream
    /\ NoAddr
    /\ pc = "ready"

ParseChunkCall ==
    /\ pc = "ready"
    /\ req' = ParseChunk(chunk, spare)
    /\ pc' = "done"
    /\ UNCHANGED <<chunk, spare, encVars, streamVars, addrVars>>

Next == ParseChunkCall

Spec == Init /\ [][Next]_vars

----------------------------------------------------------------------------
(* Specification of the stand-in: a Byte1pMessage is encoded onto a        *)
(* destination prefix, then a prefix of the result is classified.          *)

MaxPayload == 3
PayloadBytes == {0, 97, 112}
Payloads == UNION {[1..n -> PayloadBytes] : n \in 0..MaxPayload}
Destinations == { << >>, <<81>>, <<0, 0>> }

InitStandIn ==
    /\ NoChunk
    /\ NoStream
    /\ NoAddr
    /\ encDst \in Destinations
    /\ encData \in Payloads
    /\ encOut = << >>
    /\ pc = "ready"

EncodeCall ==
    /\ pc = "ready"
    /\ encOut' = Byte1pMessageEncode([type |-> "Byte1pMessage", Data |-> encData], encDst)
    /\ pc' = "encoded"
    /\ UNCHANGED <<chunk, spare, req, encDst, encData, streamVars, addrVars>>

\* the caller classifies encOut[:n]; the slice keeps the buffer's capacity
ParseEncodedCall ==
    /\ pc = "encoded"
    /\ \E n \in 0..Len(encOut) :
          /\ chunk' = Slice(encOut, 0, n)
          /\ spare' = From(encOut, n)
    /\ req' = ParseChunk(chunk', spare')
    /\ pc' = "done"
    /\ UNCHANGED <<encVars, streamVars, addrVars>>

NextStandIn == EncodeCall \/ ParseEncodedCall

SpecStandIn == InitStandIn /\ [][NextStandIn]_vars

----------------------------------------------------------------------------
(* Replay files.  A row of the file is given by its timestamp bytes, its   *)
(* two address tokens and its payload; the tables pair the bytes of a      *)
(* timestamp and the text of a token with the value they stand for.        *)

Bytes8(n) == <<0, 0, 0, 0>> \o PutUint32(n)

TimestampTable ==
    << [bytes |-> <<0, 0, 0, 0, 0, 0, 0, 0>>,
        time |-> [sec |-> Bytes8(0), nsec |-> 0]],
       [bytes |-> <<22, 92, 76, 54, 10, 214, 172, 200>>,
        time |-> [sec |-> Bytes8(1611246561), nsec |-> 685581000]],
       [bytes |-> <<0, 0, 0, 0, 59, 154, 201, 255>>,
        time |-> [sec |-> Bytes8(0), nsec |-> 999999999]] >>

Loopback4 == v4InV6Prefix \o <<127, 0, 0, 1>>
Loopback6 == <<0, 0, 0, 0, 0, 0, 0, 0, 0, 0, 0, 0, 0, 0, 0, 1>>

\* "127.0.0.1:64245", "127.0.0.1:5432", "[::1]:5432", and the tokens that
\* are no address "db:5432", "127.0.0.1:65536"
TokenTable ==
    << [text |-> <<49, 50, 55, 46, 48, 46, 48, 46, 49, 58, 54, 52, 50, 52, 53>>,
        valid |-> TRUE, addr |-> [IP |-> Loopback4, Port |-> 64245]],
       [text |-> <<49, 50, 55, 46, 48, 46, 48, 46, 49, 58, 53, 52, 51, 50>>,
        valid |-> TRUE, addr |-> [IP |-> Loopback4, Port |-> 5432]],
       [text |-> <<91, 58, 58, 49, 93, 58, 53, 52, 51, 50>>,
        valid |-> TRUE, addr |-> [IP |-> Loopback6, Port |-> 5432]],
       [text |-> <<100, 98, 58, 53, 52, 51, 50>>, valid |-> FALSE, addr |-> ZeroAddr],
       [text |-> <<49, 50, 55, 46, 48, 46, 48, 46, 49, 58, 54, 53, 53, 51, 54>>,
        valid |-> FALSE, addr |-> ZeroAddr] >>

PayloadTable == << << >>, <<32, 0>>, <<0, 0, 0, 8, 4, 210, 22, 47>> >>

RowOf(t, c, v, p) ==
    [ts |-> TimestampTable[t], client |-> TokenTable[c], server |-> TokenTable[v],
     payload |-> PayloadTable[p]]

WellFormed(row) == row.client.valid /\ row.server.valid

\* the rows a file is made of: three well-formed rows, a row with a bad
\* client token and a row with a bad server token
FileRows ==
    { RowOf(2, 1, 2, 3), RowOf(1, 3, 3, 1), RowOf(3, 2, 1, 2),
      RowOf(1, 4, 2, 2), RowOf(2, 1, 5, 1) }

\* the bytes of a row in the file (README, "Replay File Format")
Wire(row) ==
    row.ts.bytes \o row.client.text \o <<32>> \o row.server.text \o <<32>>
    \o PutUint32(Len(row.payload)) \o row.payload

RECURSIVE WireAll(_)
WireAll(rows) == IF rows = << >> THEN << >> ELSE Wire(Head(rows)) \o WireAll(Tail(rows))

\* the record a well-formed row stands for
Decoded(row) ==
    [Timestamp |-> row.ts.time, ClientAddr |-> row.client.addr,
     ServerAddr |-> row.server.addr, Chunk |-> row.payload]

MaxRows == 2
MaxCalls == MaxRows + 2

----------------------------------------------------------------------------
(* Specification of the stream: a file of rows, possibly cut short, is     *)
(* read with Next.  A caller goes on after a clean or unexpected end but   *)
(* stops at any other error, as runParse does at every error.              *)

InitStream ==
    /\ NoChunk
    /\ NoEncode
    /\ NoAddr
    /\ \E k \in 0..MaxRows : \E rows \in [1..k -> FileRows] :
          \E cut \in 0..Len(WireAll(rows)) :
             /\ recs = rows
             /\ source = Slice(WireAll(rows), 0, cut)
    /\ off = 0
    /\ rets = << >>
    /\ tp = ZeroPacket
    /\ pc = "ready"

EndErrs == {"io.EOF", "io.ErrUnexpectedEOF"}

\* the stream reads from the start of the source again at every call
Returned_Rewinds(r) ==
    /\ rets' = Append(rets, [tp |-> r.tp, err |-> r.err, n |-> r.n, at |-> off])
    /\ off' = 0
    /\ tp' = r.left

\* the effect of a Next call that returned r
Returned(r) ==
    /\ rets' = Append(rets, [tp |-> r.tp, err |-> r.err, n |-> r.n, at |-> off])
    /\ off' = off + r.n
    /\ tp' = r.left

NextCall ==
    /\ pc \in {"ready", "written"}
    /\ Len(rets) < MaxCalls
    /\ rets # << >> => rets[Len(rets)].err \in EndErrs \cup {"nil"}
    /\ Returned(ReplayLogStreamNext(source, off))
    /\ UNCHANGED <<source, recs, chunkVars, encVars, addrVars, pc>>

NextStream == NextCall

SpecStream == InitStream /\ [][NextStream]_vars

----------------------------------------------------------------------------
(* The write path: a record is written as one row.  The timestamp is the  *)
(* unsigned 64-bit count of nanoseconds, an address is its text.          *)

\* s * m + carry for the big-endian number s, modulo 256^Len(s)
RECURSIVE MulAdd(_, _, _)
MulAdd(s, m, carry) ==
    IF s = << >> THEN << >>
    ELSE LET t == s[Len(s)] * m + carry IN
         MulAdd(SubSeq(s, 1, Len(s) - 1), m, t \div 256) \o <<t % 256>>

\* the 8 big-endian bytes of sec * 1e9 + nsec
NanosOfTime(t) ==
    MulAdd(MulAdd(t.sec, 1953125, t.nsec \div 512), 512, t.nsec % 512)

WriteRow(rec) ==
    NanosOfTime(rec.Timestamp) \o AddrString(rec.ClientAddr) \o <<32>>
    \o AddrString(rec.ServerAddr) \o <<32>>
    \o PutUint32(Len(rec.Chunk)) \o rec.Chunk

\* the records that are written: instants from the epoch to the last one a
\* uint64 of nanoseconds can hold, IPv4 and IPv6 addresses
RecordTimes ==
    { [sec |-> Bytes8(0), nsec |-> 0],
      [sec |-> Bytes8(1611246561), nsec |-> 685581000],
      [sec |-> Bytes8(0), nsec |-> 999999999],
      [sec |-> <<0, 0, 0, 4, 75, 130, 250, 9>>, nsec |-> 709551615] }

RecordAddrs ==
    { [IP |-> Loopback4, Port |-> 64245],
      [IP |-> v4InV6Prefix \o <<10, 0, 200, 3>>, Port |-> 0],
      [IP |-> Loopback6, Port |-> 5432],
      [IP |-> <<254, 128, 0, 0, 0, 0, 0, 0, 0, 1, 0, 0, 0, 0, 10, 188>>, Port |-> 65535] }

Records ==
    [Timestamp : RecordTimes, ClientAddr : RecordAddrs, ServerAddr : RecordAddrs,
     Chunk : {PayloadTable[i] : i \in 1..Len(PayloadTable)}]

\* what follows the row in the file
Trailers == { << >>, <<0>> }

IsIPv4(a) == Slice(a.IP, 0, 12) = v4InV6Prefix

----------------------------------------------------------------------------
(* Specification of the round trip: one record is written, then read *)

InitRoundTrip ==
    /\ NoChunk
    /\ NoEncode
    /\ NoAddr
    /\ \E rec \in Records : recs = <<rec>>
    /\ source = << >>
    /\ off = 0
    /\ rets = << >>
    /\ tp = ZeroPacket
    /\ pc = "ready"

WriteCall ==
    /\ pc = "ready"
    /\ \E trailer \in Trailers : source' = WriteRow(recs[1]) \o trailer
    /\ pc' = "written"
    /\ UNCHANGED <<off, rets, tp, recs, chunkVars, encVars, addrVars>>

ReadBackCall ==
    /\ pc = "written"
    /\ rets = << >>
    /\ NextCall

NextRoundTrip == WriteCall \/ ReadBackCall

SpecRoundTrip == InitRoundTrip /\ [][NextRoundTrip]_vars

----------------------------------------------------------------------------
(* Address tokens.  A token is put together from a host text, a port text  *)
(* and a shape; the tables say for each host text whether it is an IP      *)
(* literal and which, and for each port text whether it is a decimal       *)
(* number of 0..65535 and which.                                           *)

HostTable ==
    <<
       \* "127.0.0.1"
       [text |-> <<49, 50, 55, 46, 48, 46, 48, 46, 49>>,
        isIP |-> TRUE, ip |-> <<0, 0, 0, 0, 0, 0, 0, 0, 0, 0, 255, 255, 127, 0, 0, 1>>],
       \* "10.0.200.3"
       [text |-> <<49, 48, 46, 48, 46, 50, 48, 48, 46, 51>>,
        isIP |-> TRUE, ip |-> <<0, 0, 0, 0, 0, 0, 0, 0, 0, 0, 255, 255, 10, 0, 200, 3>>],
       \* "::1"
       [text |-> <<58, 58, 49>>,
        isIP |-> TRUE, ip |-> <<0, 0, 0, 0, 0, 0, 0, 0, 0, 0, 0, 0, 0, 0, 0, 1>>],
       \* "2001:db8::ff00:42:8329"
       [text |-> <<50, 48, 48, 49, 58, 100, 98, 56, 58, 58, 102, 102, 48, 48, 58, 52, 50, 58, 56, 51, 50, 57>>,
        isIP |-> TRUE, ip |-> <<32, 1, 13, 184, 0, 0, 0, 0, 0, 0, 255, 0, 0, 66, 131, 41>>],
       \* "::ffff:1.2.3.4"
       [text |-> <<58, 58, 102, 102, 102, 102, 58, 49, 46, 50, 46, 51, 46, 52>>,
        isIP |-> TRUE, ip |-> <<0, 0, 0, 0, 0, 0, 0, 0, 0, 0, 255, 255, 1, 2, 3, 4>>],
       \* "::"
       [text |-> <<58, 58>>,
        isIP |-> TRUE, ip |-> <<0, 0, 0, 0, 0, 0, 0, 0, 0, 0, 0, 0, 0, 0, 0, 0>>],
       \* "localhost"
       [text |-> <<108, 111, 99, 97, 108, 104, 111, 115, 116>>,
        isIP |-> FALSE, ip |-> NilIP],
       \* "256.0.0.1"
       [text |-> <<50, 53, 54, 46, 48, 46, 48, 46, 49>>,
        isIP |-> FALSE, ip |-> NilIP],
       \* "1.2.3"
       [text |-> <<49, 46, 50, 46, 51>>,
        isIP |-> FALSE, ip |-> NilIP],
       \* "1:2:3:4:5:6:7:8:9"
       [text |-> <<49, 58, 50, 58, 51, 58, 52, 58, 53, 58, 54, 58, 55, 58, 56, 58, 57>>,
        isIP |-> FALSE, ip |-> NilIP],
       \* ""
       [text |-> << >>,
        isIP |-> FALSE, ip |-> NilIP],
       \* "fe80::1::2"
       [text |-> <<102, 101, 56, 48, 58, 58, 49, 58, 58, 50>>,
        isIP |-> FALSE, ip |-> NilIP],
       \* "12345::"
       [text |-> <<49, 50, 51, 52, 53, 58, 58>>,
        isIP |-> FALSE, ip |-> NilIP] >>

\* "0", "65535", "5432", "64245", "080", and the texts that are no port
\* "65536", "", "http", "-1", "+80", "0x50"
PortTable ==
    <<
       [text |-> <<48>>, ok |-> TRUE, n |-> 0],
       [text |-> <<54, 53, 53, 51, 53>>, ok |-> TRUE, n |-> 65535],
       [text |-> <<53, 52, 51, 50>>, ok |-> TRUE, n |-> 5432],
       [text |-> <<54, 52, 50, 52, 53>>, ok |-> TRUE, n |-> 64245],
       [text |-> <<48, 56, 48>>, ok |-> TRUE, n |-> 80],
       [text |-> <<54, 53, 53, 51, 54>>, ok |-> FALSE, n |-> 0],
       [text |-> << >>, ok |-> FALSE, n |-> 0],
       [text |-> <<104, 116, 116, 112>>, ok |-> FALSE, n |-> 0],
       [text |-> <<45, 49>>, ok |-> FALSE, n |-> 0],
       [text |-> <<43, 56, 48>>, ok |-> FALSE, n |-> 0],
       [text |-> <<48, 120, 53, 48>>, ok |-> FALSE, n |-> 0] >>

\* host:port, [host]:port, host, [host]
Shapes == {"plain", "bracketed", "bare", "bracketed bare"}

TokenBytes(shape, h, p) ==
    IF shape = "plain" THEN HostTable[h].text \o <<58>> \o PortTable[p].text
    ELSE IF shape = "bracketed"
    THEN <<91>> \o HostTable[h].text \o <<93, 58>> \o PortTable[p].text
    ELSE IF shape = "bare" THEN HostTable[h].text
    ELSE <<91>> \o HostTable[h].text \o <<93>>

Tokens ==
    { [host |-> h, port |-> p, shape |-> sh, bytes |-> TokenBytes(sh, h, p)] :
         h \in 1..Len(HostTable), p \in 1..Len(PortTable), sh \in Shapes }

----------------------------------------------------------------------------
(* Specification of the address codec: a token is parsed; the address it   *)
(* gives, if any, is formatted; the text is parsed again.                  *)

InitAddr ==
    /\ NoChunk
    /\ NoEncode
    /\ NoStream
    /\ token \in Tokens
    /\ addrRet = << >>
    /\ text = << >>
    /\ addrBack = << >>
    /\ pc = "ready"

NewAddrCall ==
    /\ pc = "ready"
    /\ addrRet' = NewAddr(token.bytes)
    /\ pc' = "parsed"
    /\ UNCHANGED <<token, text, addrBack, chunkVars, encVars, streamVars>>

StringCall ==
    /\ pc = "parsed"
    /\ addrRet.err = "nil"
    /\ text' = AddrString(addrRet.addr)
    /\ pc' = "formatted"
    /\ UNCHANGED <<token, addrRet, addrBack, chunkVars, encVars, streamVars>>

ReparseCall ==
    /\ pc = "formatted"
    /\ addrBack' = NewAddr(text)
    /\ pc' = "done"
    /\ UNCHANGED <<token, addrRet, text, chunkVars, encVars, streamVars>>

NextAddr == NewAddrCall \/ StringCall \/ ReparseCall

SpecAddr == InitAddr /\ [][NextAddr]_vars

----------------------------------------------------------------------------
(* Properties of the stream *)

AllWellFormed == \A i \in 1..Len(recs) : WellFormed(recs[i])
Uncut == source = WireAll(recs)

\* offset of the first byte of row j of the file
RowStart(j) == Len(WireAll(SubSeq(recs, 1, j - 1)))

\* the 4-byte length field that precedes the payload of the record that the
\* i-th Next call returned
LengthField(i) ==
    LET end == rets[i].at + rets[i].n
        size == Len(rets[i].tp.Chunk) IN
    Uint32(Slice(source, end - size - 4, end - size))

\* C1: on a file of N well-formed rows the first N calls of Next return the
\* records of the rows, in order, each with a payload as long as its length
\* field says, and call N + 1 returns io.EOF.
C1_NextYieldsRowsThenEOF ==
    (AllWellFormed /\ Uncut) =>
        \A i \in 1..Len(rets) :
            /\ i <= Len(recs) =>
                  /\ rets[i].err = "nil"
                  /\ rets[i].tp = Decoded(recs[i])
                  /\ Len(rets[i].tp.Chunk) = LengthField(i)
            /\ i = Len(recs) + 1 => rets[i].tp = NilPacket /\ rets[i].err = "io.EOF"

C1_Witness ==
    /\ AllWellFormed
    /\ Uncut
    /\ Len(recs) = 2
    /\ recs[1].payload = PayloadTable[3]
    /\ recs[2].client.addr.IP = Loopback6
    /\ Len(rets) = 3
    /\ rets[2].tp = Decoded(recs[2])
    /\ rets[3].err = "io.EOF"

\* the file ends inside row j, whose tokens and the rows before it are
\* well-formed
CutInside(j) ==
    /\ j \in 1..Len(recs)
    /\ \A i \in 1..j : WellFormed(recs[i])
    /\ RowStart(j) < Len(source)
    /\ Len(source) < RowStart(j + 1)

\* C2: when the file ends inside a row, the Next call that reads that row
\* fails with io.ErrUnexpectedEOF and returns no record; Next returns io.EOF
\* only when its Read consumed no byte, and a record only with a payload as
\* long as its length field says.
C2_EndOnlyAtRowBoundary ==
    /\ \A j \in 1..Len(rets) :
          CutInside(j) =>
              /\ rets[j].tp = NilPacket
              /\ rets[j].err = "io.ErrUnexpectedEOF"
              /\ rets[j].n = Len(source) - RowStart(j)
    /\ \A i \in 1..Len(rets) :
          /\ rets[i].err = "io.EOF" => rets[i].n = 0 /\ rets[i].at = Len(source)
          /\ rets[i].err = "nil" =>
                rets[i].tp # NilPacket /\ Len(rets[i].tp.Chunk) = LengthField(i)

C2_Witness ==
    /\ Len(recs) = 2
    /\ CutInside(2)
    /\ recs[2].payload = PayloadTable[3]
    /\ Len(source) = RowStart(3) - 3
    /\ Len(rets) = 2
    /\ rets[1].err = "nil"
    /\ rets[2].err = "io.ErrUnexpectedEOF"

\* C3: a record that is written as a row and read back is the record that
\* was written, and reading it consumes exactly the bytes of the row.
C3_RoundTrip ==
    (pc = "written" /\ Len(rets) = 1) =>
        /\ rets[1].err = "nil"
        /\ rets[1].tp = recs[1]
        /\ rets[1].n = Len(WriteRow(recs[1]))

----------------------------------------------------------------------------
(* Properties of the classifier *)

ParsingClientMessageErrs == {ErrTooShort5, ErrTooShort8, ErrNotStartup}

\* the registry of spec section 4.4: tag byte -> decode routine
RegistryDecode(tag, body) ==
    CASE tag = 66 -> BindDecode(body)
      [] tag = 67 -> CloseDecode(body)
      [] tag = 99 -> CopyDoneDecode(body)
      [] tag = 100 -> CopyDataDecode(body)
      [] tag = 68 -> DescribeDecode(body)
      [] tag = 69 -> ExecuteDecode(body)
      [] tag = 102 -> CopyFailDecode(body)
      [] tag = 72 -> FlushDecode(body)
      [] tag = 80 -> ParseDecode(body)
      [] tag = 112 -> Byte1pMessageDecode(body)
      [] tag = 81 -> QueryDecode(body)
      [] tag = 83 -> SyncDecode(body)
      [] tag = 88 -> TerminateDecode(body)

UntaggedTypes == {"CancelRequest", "SSLRequest", "GSSEncRequest", "StartupMessage"}

Tagged == pc = "done" /\ Len(chunk) >= 5 /\ chunk[1] \in RegistryTags

\* C4: a chunk of at least 5 bytes whose first byte is a registry tag gets
\* exactly the outcome of that tag's decode routine on chunk[5:], never an
\* untagged request, whatever the declared-length bytes chunk[1:5] are.
C4_TagDispatchIsFinal ==
    Tagged =>
        /\ req = RegistryDecode(chunk[1], From(chunk, 5))
        /\ req.fm.type \notin UntaggedTypes
        /\ req.err \notin ParsingClientMessageErrs
        /\ \A lf \in LenFields \cup {PutUint32(Len(chunk) - 1)} :
              ParseChunk(<<chunk[1]>> \o lf \o From(chunk, 5), spare) = req

C4_Witness ==
    /\ Tagged
    /\ chunk[1] = 81
    /\ req = Ok([type |-> "Query", String |-> <<97, 1>>])
    /\ Slice(chunk, 1, 5) # PutUint32(Len(chunk) - 1)

\* C5 as stated: every chunk whose first byte is 'F' fails with
\* NotImplemented, whatever its length.
C5_FAlwaysNotImplemented ==
    (pc = "done" /\ Len(chunk) >= 1 /\ chunk[1] = 70) => req = Fail(ErrNotImplemented)

\* C5 amended: a chunk of at least 5 bytes whose first byte is 'F' fails with
\* NotImplemented whatever its body, with no request, and the error is none
\* of the ErrParsingClientMessage errors; a shorter chunk whose first byte
\* is 'F' fails with the "at least 5 bytes" ErrParsingClientMessage error.
C5_FNotImplementedFrom5Bytes ==
    (pc = "done" /\ Len(chunk) >= 1 /\ chunk[1] = 70) =>
        /\ req.fm = NilMsg
        /\ Len(chunk) >= 5 =>
              req.err = ErrNotImplemented /\ req.err \notin ParsingClientMessageErrs
        /\ Len(chunk) < 5 => req.err = ErrTooShort5

C5_Witness ==
    /\ pc = "done"
    /\ Len(chunk) > 5
    /\ chunk[1] = 70
    /\ req.err = ErrNotImplemented

\* C6: a chunk of fewer than 5 bytes, or of fewer than 8 bytes whose first
\* byte is not in the registry, is rejected with a returned
\* ErrParsingClientMessage "at least N bytes" error and no request.
C6_ShortChunkRejected ==
    (/\ pc = "done"
     /\ \/ Len(chunk) < 5
        \/ Len(chunk) < 8 /\ chunk[1] \notin RegistryTags \cup {70})
    => req.fm = NilMsg /\ req.err \in {ErrTooShort5, ErrTooShort8}

Untagged == pc = "done" /\ Len(chunk) >= 8 /\ chunk[1] \notin RegistryTags \cup {70}

\* C7: a chunk whose first 8 bytes are 00 00 00 08 04 D2 16 2F is the SSL
\* request and one whose first 8 bytes are 00 00 00 08 04 D2 16 30 is the
\* GSS encryption request, whatever follows; neither is ever reported as
\* "expected a startup message".
C7_SSLAndGSSMagic ==
    (pc = "done" /\ Len(chunk) >= 8) =>
        /\ Slice(chunk, 0, 8) = SSLMagic
              => req = Ok([type |-> "SSLRequest"])
        /\ Slice(chunk, 0, 8) = GSSMagic
              => req = Ok([type |-> "GSSEncRequest"])

C7_Witness ==
    /\ pc = "done"
    /\ Len(chunk) > 8
    /\ Slice(chunk, 0, 8) = SSLMagic
    /\ req.fm.type = "SSLRequest"

\* C8: a chunk made of the cancel magic 00 00 00 08 04 D2 16 2E and 8 more
\* bytes is a Cancel request with process id u32be(chunk[8:12]) and secret
\* key u32be(chunk[12:16]); a chunk of fewer than 16 bytes that starts with
\* the cancel magic fails with an error and yields no request.
C8_CancelRequest ==
    (pc = "done" /\ Len(chunk) >= 8 /\ Slice(chunk, 0, 8) = CancelMagic) =>
        /\ Len(chunk) = 16 =>
              req = Ok([type |-> "CancelRequest",
                        ProcessID |-> Uint32(Slice(chunk, 8, 12)),
                        SecretKey |-> Uint32(Slice(chunk, 12, 16))])
        /\ Len(chunk) < 16 => req.fm = NilMsg /\ req.err \notin {"nil", "panic"}

C8_Witness ==
    /\ pc = "done"
    /\ chunk = CancelMagic \o <<0, 0, 1, 2, 0, 0, 3, 4>>
    /\ req = Ok([type |-> "CancelRequest", ProcessID |-> 258, SecretKey |-> 772])

\* C9: a chunk of at least 8 bytes whose first byte is no registry tag and
\* whose first 8 bytes are none of the three magic sequences fails with
\* "expected a startup message" when chunk[4:8] is not 00 03 00 00 and
\* otherwise gets the outcome of the Startup decode; no other request
\* variant comes out of this path.
C9_StartupPath ==
    (/\ Untagged
     /\ Slice(chunk, 0, 8) \notin
            {CancelMagic, SSLMagic, GSSMagic})
    => /\ req.fm.type \in {"nil", "StartupMessage"}
       /\ Slice(chunk, 4, 8) # <<0, 3, 0, 0>> => req = Fail(ErrNotStartup)
       /\ Slice(chunk, 4, 8) = <<0, 3, 0, 0>> => req = StartupMessageDecode(From(chunk, 4))

C9_Witness ==
    /\ Untagged
    /\ chunk = <<0, 0, 0, 9, 0, 3, 0, 0, 97, 0, 98, 0, 97, 0, 99, 0, 0>>
    /\ req = Ok([type |-> "StartupMessage", ProtocolVersion |-> 196608,
                 Parameters |-> (<<97>> :> <<99>>)])

\* C10: Encode appends 'p', the 4-byte big-endian length len(Data)+4 and the
\* raw Data to the destination; classifying the encoding made on an empty
\* destination gives back a stand-in with the same Data; and a chunk of at
\* least 5 bytes whose first byte is 'p' always decodes, to Data = chunk[5:].
C10_StandInRoundTrip ==
    /\ pc # "ready" =>
          /\ Len(encOut) = Len(encDst) + 5 + Len(encData)
          /\ Slice(encOut, 0, Len(encDst)) = encDst
          /\ encOut[Len(encDst) + 1] = 112
          /\ Uint32(Slice(encOut, Len(encDst) + 1, Len(encDst) + 5)) = Len(encData) + 4
          /\ From(encOut, Len(encDst) + 5) = encData
    /\ (pc = "done" /\ encDst = << >> /\ chunk = encOut) =>
          req = Ok([type |-> "Byte1pMessage", Data |-> encData])
    /\ (pc = "done" /\ Len(chunk) >= 5 /\ chunk[1] = 112) =>
          req = Ok([type |-> "Byte1pMessage", Data |-> From(chunk, 5)])

C10_Witness ==
    /\ pc = "done"
    /\ encDst = << >>
    /\ encData = <<112, 0, 97>>
    /\ chunk = <<112, 0, 0, 0, 7, 112, 0, 97>>
    /\ req.fm = [type |-> "Byte1pMessage", Data |-> encData]

----------------------------------------------------------------------------
(* Properties of the address codec *)

\* the errors NewAddr returns for a token that is no address: those of
\* net.SplitHostPort, ErrParsingIP and those of strconv.ParseUint
InvalidAddressErrs ==
    { "missing port in address", "too many colons in address",
      "missing ']' in address", "unexpected '[' in address",
      "unexpected ']' in address", "ErrParsingIP",
      "strconv.ErrSyntax", "strconv.ErrRange" }

\* the token has a final ':' that parts a host from a port: host:port with
\* no ':' in the host, or [host]:port
SplitsOnFinalColon(t) ==
    \/ t.shape = "bracketed"
    \/ t.shape = "plain" /\ IndexByte(HostTable[t.host].text, 58) < 0

\* C11: NewAddr succeeds exactly when the token splits on its final ':'
\* (an IPv6 host in brackets) into an IP literal and a decimal port of
\* 0..65535, and then returns that IP and that port; for every other token
\* it returns no address and an error that says the address is invalid: the
\* host error for a host that is no IP, the number error for a bad port.
C11_NewAddrAcceptsExactlyAddresses ==
    (token # << >> /\ addrRet # << >>) =>
        LET h == HostTable[token.host]
            p == PortTable[token.port]
            splits == SplitsOnFinalColon(token) IN
        IF splits /\ h.isIP /\ p.ok
        THEN addrRet = [addr |-> [IP |-> h.ip, Port |-> p.n], err |-> "nil"]
        ELSE /\ addrRet.addr = ZeroAddr
             /\ addrRet.err \in InvalidAddressErrs
             /\ (splits /\ ~h.isIP) => addrRet.err = "ErrParsingIP"
             /\ (splits /\ h.isIP) => addrRet.err \in {"strconv.ErrSyntax", "strconv.ErrRange"}

\* "[::1]:5432" was parsed to the IPv6 loopback address and port 5432
C11_Witness ==
    /\ pc = "parsed"
    /\ token # << >>
    /\ token.bytes = <<91, 58, 58, 49, 93, 58, 53, 52, 51, 50>>
    /\ addrRet = [addr |-> [IP |-> Loopback6, Port |-> 5432], err |-> "nil"]

\* C12: the text Addr.String gives for an address, IPv4 or IPv6, holds no
\* space byte and NewAddr parses it back to the same IP and port.
C12_FormatParseRoundTrip ==
    (token # << >> /\ pc = "done") =>
        /\ \A i \in 1..Len(text) : text[i] # 32
        /\ addrBack = [addr |-> addrRet.addr, err |-> "nil"]

----------------------------------------------------------------------------
(* Properties of a failed or finished read *)

\* the latest Next call, when there is one
LastRet == rets[Len(rets)]

\* Next returns a record or an error, never both and never neither
NextRecordXorError ==
    \A i \in 1..Len(rets) : (rets[i].err # "nil") <=> (rets[i].tp = NilPacket)

\* C13: after a failed decode no partly filled record can be seen: Next
\* returns no record with every error and a record with no error, and the
\* TCPPacket that Read was called on holds no timestamp, no address and no
\* payload buffer when Read returned an error.
C13_NoPartialRecord ==
    /\ NextRecordXorError
    /\ (rets # << >> /\ LastRet.err # "nil") => tp = ZeroPacket

\* the leading Next calls that returned a record: the calls of a loop that
\* stops at the first error, as runParse's does, but for its last
RECURSIVE RecordsBeforeError(_)
RecordsBeforeError(i) ==
    IF i <= Len(rets) /\ rets[i].err = "nil" THEN 1 + RecordsBeforeError(i + 1) ELSE 0

\* C14: the stream only goes forward and its end is final.  Every Next call
\* starts where the call before it stopped and stays inside the source, a
\* record is decoded from the bytes of its own call alone, once Next has
\* returned io.EOF every later call returns io.EOF with no record and reads
\* nothing, and a loop that stops at the first error makes at most one call
\* for each row and one more.
C14_ForwardOnlyAbsorbingEnd ==
    /\ \A i \in 1..Len(rets) :
          /\ rets[i].at = (IF i = 1 THEN 0 ELSE rets[i - 1].at + rets[i - 1].n)
          /\ rets[i].n >= 0
          /\ rets[i].at + rets[i].n <= Len(source)
          /\ rets[i].err = "nil" =>
                /\ rets[i].n > 0
                /\ Read(Slice(source, rets[i].at, rets[i].at + rets[i].n), 0).tp = rets[i].tp
    /\ \A i \in 1..Len(rets) : \A j \in (i + 1)..Len(rets) :
          rets[i].err = "io.EOF" =>
             rets[j] = [tp |-> NilPacket, err |-> "io.EOF", n |-> 0, at |-> rets[i].at]
    /\ RecordsBeforeError(1) + 1 <= Len(recs) + 1

\* two rows were read, then the end was met twice
C14_Witness ==
    /\ Len(rets) = 4
    /\ rets[1].err = "nil" /\ rets[2].err = "nil"
    /\ rets[1].at + rets[1].n = rets[2].at
    /\ rets[3].err = "io.EOF" /\ rets[4].err = "io.EOF"
    /\ Len(source) = rets[2].at + rets[2].n

====
